---- MODULE Spec2Model ----
(***************************************************************************)
(* Model of the waste classification-and-routing handler                   *)
(* (src/cloud_backend/main.py, process_waste).                             *)
(*                                                                         *)
(* Text is modelled as a sequence of one-character strings wherever the    *)
(* code works on characters (strip, lower, upper, membership in the        *)
(* recyclable list), so that normalisation is computed, not assumed.       *)
(* Fixed messages that the code only passes along are one-element          *)
(* sequences holding the whole message.                                    *)
(*                                                                         *)
(* Several requests may be in flight in one worker.  A request is split    *)
(* at its blocking calls: the classifier call and the database add.        *)
(***************************************************************************)
EXTENDS Integers, Sequences, FiniteSets, TLC

\* Number of requests the worker serves in a behaviour.
NumRequests == 2
\* Longest arbitrary string the classifier returns in the single-request runs.
MaxLen == 2

Requests == 1..NumRequests

VARIABLES
    model_defined,   \* the global `model` was bound at worker start (line 12)
    db_defined,      \* the global `db` was bound at worker start (line 10)
    log,             \* the waste_logs collection, in commit order
    pc,              \* per request: where the handler is
    request,         \* per request: [method, file] of the incoming request
    raw,             \* per request: response.text of the classifier
    detected_class,  \* per request: local detected_class
    bin_type,        \* per request: local bin_type
    response,        \* per request: the (body, status, headers) returned
    failure,         \* per request: the exception raised, if any (history)
    classifyCalls,   \* per request: calls of model.generate_content (history)
    persistCalls,    \* per request: calls of db.collection(..).add (history)
    added,           \* per request: ids of the documents it added (history)
    sim_dataset,     \* simulator: the entries of DATASET_PATH
    sim_listing,     \* simulator: the order os.listdir gives the entries in
    sim_pc,          \* simulator: where start_simulation is
    categories,      \* simulator: local categories, once sorted
    sim_i,           \* simulator: position of the for loop in categories
    image_file,      \* simulator: the file chosen for the current category
    sim_clock,       \* simulator: time slept so far
    sim_trace        \* simulator: what it has done, in order (history)

hvars == <<model_defined, db_defined, log, pc, request, raw, detected_class,
           bin_type, response, failure, classifyCalls, persistCalls, added>>

simvars == <<sim_dataset, sim_listing, sim_pc, categories, sim_i, image_file,
             sim_clock, sim_trace>>

vars == <<hvars, simvars>>

----------------------------------------------------------------------------
\* Text literals of the source.

cardboard == <<"c", "a", "r", "d", "b", "o", "a", "r", "d">>
paper == <<"p", "a", "p", "e", "r">>
metal == <<"m", "e", "t", "a", "l">>
plastic == <<"p", "l", "a", "s", "t", "i", "c">>
brown_glass == <<"b", "r", "o", "w", "n", "-", "g", "l", "a", "s", "s">>
white_glass == <<"w", "h", "i", "t", "e", "-", "g", "l", "a", "s", "s">>
green_glass == <<"g", "r", "e", "e", "n", "-", "g", "l", "a", "s", "s">>
clothes == <<"c", "l", "o", "t", "h", "e", "s">>
shoes == <<"s", "h", "o", "e", "s">>
battery == <<"b", "a", "t", "t", "e", "r", "y">>
biological == <<"b", "i", "o", "l", "o", "g", "i", "c", "a", "l">>
trash == <<"t", "r", "a", "s", "h">>

\* The twelve categories the prompt names (line 48).
PromptCategories ==
    {battery, biological, brown_glass, cardboard, clothes, green_glass,
     metal, paper, plastic, shoes, trash, white_glass}

Recycle == <<"R", "e", "c", "y", "c", "l", "e">>
General == <<"G", "e", "n", "e", "r", "a", "l">>
OPEN_ == <<"O", "P", "E", "N", "_">>
DeviceId == <<"feather-s3-simulation">>

----------------------------------------------------------------------------
\* str.strip(), str.lower(), str.upper() on character sequences.

UpperLetters ==
    <<"A", "B", "C", "D", "E", "F", "G", "H", "I", "J", "K", "L", "M",
      "N", "O", "P", "Q", "R", "S", "T", "U", "V", "W", "X", "Y", "Z">>
LowerLetters ==
    <<"a", "b", "c", "d", "e", "f", "g", "h", "i", "j", "k", "l", "m",
      "n", "o", "p", "q", "r", "s", "t", "u", "v", "w", "x", "y", "z">>

\* Characters str.strip() removes (the ASCII whitespace used here).
Whitespace == {" ", "\n", "\t", "\r"}

LowerChar(c) ==
    IF \E i \in 1..Len(UpperLetters) : UpperLetters[i] = c
    THEN LowerLetters[CHOOSE i \in 1..Len(UpperLetters) : UpperLetters[i] = c]
    ELSE c

UpperChar(c) ==
    IF \E i \in 1..Len(LowerLetters) : LowerLetters[i] = c
    THEN UpperLetters[CHOOSE i \in 1..Len(LowerLetters) : LowerLetters[i] = c]
    ELSE c

Lower(s) == [i \in 1..Len(s) |-> LowerChar(s[i])]
Upper(s) == [i \in 1..Len(s) |-> UpperChar(s[i])]

RECURSIVE LStrip(_)
LStrip(s) ==
    IF s # <<>> /\ Head(s) \in Whitespace THEN LStrip(Tail(s)) ELSE s

RECURSIVE RStrip(_)
RStrip(s) ==
    IF s # <<>> /\ s[Len(s)] \in Whitespace
    THEN RStrip(SubSeq(s, 1, Len(s) - 1))
    ELSE s

Strip(s) == RStrip(LStrip(s))

\* Faulty variant: lowercases without trimming.
NormalizeNoStrip(text) == Lower(text)

\* response.text.strip().lower()  (line 54)
Normalize(text) == Lower(Strip(text))

----------------------------------------------------------------------------
\* Routing (lines 56-63).

\* Faulty variant: 'shoes' left out of the list.
recyclable_items_short ==
    <<cardboard, paper, metal, plastic, brown_glass, white_glass,
      green_glass, clothes>>

recyclable_items ==
    <<cardboard, paper, metal, plastic, brown_glass, white_glass,
      green_glass, clothes, shoes>>

\* Python's `x in list`.
InList(x, list) == \E i \in 1..Len(list) : list[i] = x

\* Faulty variant: a label the prompt does not name falls to Recycle.
RoutingPolicyFailOpen(class) ==
    IF InList(class, recyclable_items) \/ class \notin PromptCategories
    THEN Recycle
    ELSE General

RoutingPolicy(class) ==
    IF InList(class, recyclable_items) THEN Recycle ELSE General

----------------------------------------------------------------------------
\* Responses: (body, status, headers).  A JSON body and the headers are sets
\* of <<key, value>> pairs; the empty body '' is the empty set.

Response(body, status, headers) ==
    [body |-> body, status |-> status, headers |-> headers]

NoResponse == Response({}, 0, {})

AllowOrigin == {<<"Access-Control-Allow-Origin", "*">>}

PreflightHeaders ==
    {<<"Access-Control-Allow-Origin", "*">>,
     <<"Access-Control-Allow-Methods", "POST">>,
     <<"Access-Control-Allow-Headers", "Content-Type">>,
     <<"Access-Control-Max-Age", "3600">>}

PreflightResponse == Response({}, 204, PreflightHeaders)

MissingFileResponse ==
    Response({<<"error", <<"No file uploaded">>>>}, 400, AllowOrigin)

\* Faulty variant: the bin is not uppercased.
CommandNoUpper(bin) == OPEN_ \o bin

\* "OPEN_" + bin_type.upper()  (line 79)
Command(bin) == OPEN_ \o Upper(bin)

SuccessResponse(class, bin) ==
    Response({<<"status", <<"success">>>>,
              <<"class", class>>,
              <<"bin", bin>>,
              <<"command", Command(bin)>>}, 200, AllowOrigin)

\* Faulty variant: a fixed message instead of str(e).
ErrorResponseGeneric(msg) ==
    Response({<<"error", <<"Internal Server Error">>>>}, 500, AllowOrigin)

\* ({'error': str(e)}, 500, ...)  (line 84)
ErrorResponse(msg) == Response({<<"error", msg>>}, 500, AllowOrigin)

----------------------------------------------------------------------------
\* The persistence log (Firestore collection 'waste_logs').

\* Faulty variant: the bin field is written from a constant.
WasteLogDataFixedBin(class, bin, ts) ==
    [timestamp |-> ts, class |-> class, bin |-> Recycle, device_id |-> DeviceId]

\* Faulty variant: the device field is written under the name deviceId.
WasteLogDataCamel(class, bin, ts) ==
    [timestamp |-> ts, class |-> class, bin |-> bin, deviceId |-> DeviceId]

\* The document passed to add (lines 67-72); SERVER_TIMESTAMP is resolved by
\* the server at commit.
WasteLogData(class, bin, ts) ==
    [timestamp |-> ts, class |-> class, bin |-> bin, device_id |-> DeviceId]

\* Faulty variant: the document is written twice.
AddTwice(lg, class, bin) ==
    LET one == Append(lg, [id |-> Len(lg) + 1,
                           data |-> WasteLogData(class, bin, Len(lg) + 1)])
    IN  Append(one, [id |-> Len(one) + 1,
                     data |-> WasteLogData(class, bin, Len(one) + 1)])

\* Faulty variant: a document with the same class and bin replaces the earlier one.
AddUpsert(lg, class, bin) ==
    LET keep == SelectSeq(lg, LAMBDA d : d.data.class # class)
    IN  Append(keep, [id |-> Len(lg) + 1,
                      data |-> WasteLogData(class, bin, Len(lg) + 1)])

\* collection.add: a new document under a fresh id; the commit order stands
\* for the server timestamp.
Add(lg, class, bin) ==
    Append(lg, [id |-> Len(lg) + 1,
                data |-> WasteLogData(class, bin, Len(lg) + 1)])

\* Ids of the documents of `after` that are not documents of `before`.
NewIds(before, after) ==
    LET fresh == SelectSeq(after,
                           LAMBDA d : \A i \in 1..Len(before) : before[i] # d)
    IN  [i \in 1..Len(fresh) |-> fresh[i].id]

----------------------------------------------------------------------------
\* Inputs and outcomes of the collaborators.

Methods == {"OPTIONS", "POST", "GET"}

\* The multipart field 'file': absent, or one of two images.
FileFields == {"none", "img1", "img2"}

NoRequest == [method |-> "", file |-> "none"]

raw_plastic_padded == <<" ", "P", "l", "a", "s", "t", "i", "c", " ", "\n">>
raw_paper_upper == <<"P", "A", "P", "E", "R">>
raw_inner_space == <<"p", "l", "a", " ", "s", "t", "i", "c">>
unknown_item == <<"u", "n", "k", "n", "o", "w", "n", "-", "i", "t", "e", "m">>

\* Texts the classifier returns in the concurrent runs.
RawLabels ==
    {plastic, battery, unknown_item, raw_plastic_padded, raw_paper_upper}

ClassifierErrors == {<<"503 classifier unavailable">>}
PersistErrors == {<<"503 database unavailable">>}
ReadError == <<"upload stream closed">>
PartError == <<"invalid image data">>
TextError == <<"response has no text part">>
ModelNameError == <<"name 'model' is not defined">>

NoFailure == [at |-> "none", msg |-> <<>>]
Failure(at, msg) == [at |-> at, msg |-> msg]

\* Faulty variant: a request that carries a file is not treated as preflight.
IsPreflightNoFile(req) == req.method = "OPTIONS" /\ req.file = "none"

\* request.method == 'OPTIONS'  (line 25)
IsPreflight(req) == req.method = "OPTIONS"

\* Faulty variant: the check for the field is gone.
HasFileAlways(req) == TRUE

\* 'file' in request.files  (line 35)
HasFile(req) == req.file # "none"

----------------------------------------------------------------------------
\* The worker after module load (lines 9-15): db is bound first, then the
\* classifier is initialised and model bound; a failure anywhere is printed
\* and leaves the later names unbound.  The states are those of a worker
\* whose module has loaded and whose handler is registered.

\* The handler's variables before the first request, in a worker whose
\* handles are bound or not as m and d say.
HandlerInit(m, d) ==
    /\ model_defined = m
    /\ db_defined = d
    /\ log = <<>>
    /\ pc = [r \in Requests |-> "idle"]
    /\ request = [r \in Requests |-> NoRequest]
    /\ raw = [r \in Requests |-> <<>>]
    /\ detected_class = [r \in Requests |-> <<>>]
    /\ bin_type = [r \in Requests |-> <<>>]
    /\ response = [r \in Requests |-> NoResponse]
    /\ failure = [r \in Requests |-> NoFailure]
    /\ classifyCalls = [r \in Requests |-> 0]
    /\ persistCalls = [r \in Requests |-> 0]
    /\ added = [r \in Requests |-> <<>>]

\* The simulator is not running.
SimOff ==
    /\ sim_dataset = <<>>
    /\ sim_listing = <<>>
    /\ sim_pc = "off"
    /\ categories = <<>>
    /\ sim_i = 0
    /\ image_file = "none"
    /\ sim_clock = 0
    /\ sim_trace = <<>>

Init ==
    /\ \E m, d \in BOOLEAN : (m => d) /\ HandlerInit(m, d)
    /\ SimOff

\* Requests are numbered in their order of arrival.
NextToArrive(r) ==
    /\ pc[r] = "idle"
    /\ \A q \in Requests : q < r => pc[q] # "idle"

\* The handler returns resp for request r.
Return(r, resp) ==
    /\ response' = [response EXCEPT ![r] = resp]
    /\ pc' = [pc EXCEPT ![r] = "done"]

\* The except clause (lines 82-84): exception e raised at step `at`.
Except(r, at, e) ==
    /\ failure' = [failure EXCEPT ![r] = Failure(at, e)]
    /\ Return(r, ErrorResponse(e))

\* Lines 25-32: a preflight request.
Preflight(r) ==
    /\ NextToArrive(r)
    /\ \E req \in [method : Methods, file : FileFields] :
        /\ IsPreflight(req)
        /\ request' = [request EXCEPT ![r] = req]
    /\ Return(r, PreflightResponse)
    /\ UNCHANGED <<model_defined, db_defined, log, raw, detected_class,
                   bin_type, failure, classifyCalls, persistCalls, added>>
    /\ UNCHANGED simvars

\* Lines 35-36: no field named 'file'.
MissingFile(r) ==
    /\ NextToArrive(r)
    /\ \E req \in [method : Methods, file : FileFields] :
        /\ ~IsPreflight(req)
        /\ ~HasFile(req)
        /\ request' = [request EXCEPT ![r] = req]
    /\ Return(r, MissingFileResponse)
    /\ UNCHANGED <<model_defined, db_defined, log, raw, detected_class,
                   bin_type, failure, classifyCalls, persistCalls, added>>
    /\ UNCHANGED simvars

\* Lines 38-39: the upload is read, outside the try block.  A failure of
\* file.read() leaves the handler as an exception, with no response of its.
ReadFile(r) ==
    /\ NextToArrive(r)
    /\ \E req \in [method : Methods, file : FileFields] :
        /\ ~IsPreflight(req)
        /\ HasFile(req)
        /\ request' = [request EXCEPT ![r] = req]
    /\ \/ /\ pc' = [pc EXCEPT ![r] = "try"]
          /\ UNCHANGED failure
       \/ /\ pc' = [pc EXCEPT ![r] = "raised"]
          /\ failure' = [failure EXCEPT ![r] = Failure("read", ReadError)]
    /\ UNCHANGED <<model_defined, db_defined, log, raw, detected_class,
                   bin_type, response, classifyCalls, persistCalls, added>>
    /\ UNCHANGED simvars

\* Lines 44-63: the image part is built, the classifier is called, its text
\* is normalised and routed.  The classifier returns any of `labels`.
ClassifyFrom(r, labels) ==
    /\ pc[r] = "try"
    /\ \/ \* Part.from_data raises (line 44)
          /\ Except(r, "part", PartError)
          /\ UNCHANGED <<raw, detected_class, bin_type, classifyCalls>>
       \/ \* the name model is unbound (line 53)
          /\ ~model_defined
          /\ Except(r, "name", ModelNameError)
          /\ UNCHANGED <<raw, detected_class, bin_type, classifyCalls>>
       \/ \* generate_content raises (line 53)
          /\ model_defined
          /\ classifyCalls' = [classifyCalls EXCEPT ![r] = @ + 1]
          /\ \E e \in ClassifierErrors : Except(r, "classify", e)
          /\ UNCHANGED <<raw, detected_class, bin_type>>
       \/ \* generate_content returns a response without text (line 54)
          /\ model_defined
          /\ classifyCalls' = [classifyCalls EXCEPT ![r] = @ + 1]
          /\ Except(r, "text", TextError)
          /\ UNCHANGED <<raw, detected_class, bin_type>>
       \/ \* generate_content returns text (lines 53-63)
          /\ model_defined
          /\ classifyCalls' = [classifyCalls EXCEPT ![r] = @ + 1]
          /\ \E text \in labels :
              /\ raw' = [raw EXCEPT ![r] = text]
              /\ detected_class' =
                    [detected_class EXCEPT ![r] = Normalize(text)]
              /\ bin_type' =
                    [bin_type EXCEPT ![r] = RoutingPolicy(Normalize(text))]
          /\ pc' = [pc EXCEPT ![r] = "persist"]
          /\ UNCHANGED <<response, failure>>
    /\ UNCHANGED <<model_defined, db_defined, log, request, persistCalls,
                   added>>
    /\ UNCHANGED simvars

Classify(r) == ClassifyFrom(r, RawLabels)

\* Faulty variant: the add does not wait for the classifier.
PersistEarly(r) ==
    /\ pc[r] \in {"try", "persist"}
    /\ persistCalls' = [persistCalls EXCEPT ![r] = @ + 1]
    /\ log' = Add(log, detected_class[r], bin_type[r])
    /\ added' = [added EXCEPT ![r] = @ \o NewIds(log, log')]
    /\ Return(r, SuccessResponse(detected_class[r], bin_type[r]))
    /\ UNCHANGED <<model_defined, db_defined, request, raw, detected_class,
                   bin_type, classifyCalls, failure>>
    /\ UNCHANGED simvars

\* Faulty variant: detected_class and bin_type are globals shared by the
\* requests in flight, holding what the latest classified request left.
PersistShared(r) ==
    LET routed == {q \in Requests : pc[q] = "persist" \/ persistCalls[q] > 0}
        last == CHOOSE q \in routed : \A p \in routed : p <= q
    IN  /\ pc[r] = "persist"
        /\ persistCalls' = [persistCalls EXCEPT ![r] = @ + 1]
        /\ log' = Add(log, detected_class[last], bin_type[last])
        /\ added' = [added EXCEPT ![r] = @ \o NewIds(log, log')]
        /\ Return(r, SuccessResponse(detected_class[last], bin_type[last]))
        /\ UNCHANGED <<model_defined, db_defined, request, raw,
                       detected_class, bin_type, classifyCalls, failure>>
        /\ UNCHANGED simvars

\* Lines 67-80: the record is added, then the success response is returned.
\* db is bound whenever model is, so the name db resolves here.
Persist(r) ==
    /\ pc[r] = "persist"
    /\ persistCalls' = [persistCalls EXCEPT ![r] = @ + 1]
    /\ \/ \* add returns
          /\ log' = Add(log, detected_class[r], bin_type[r])
          /\ added' = [added EXCEPT ![r] = @ \o NewIds(log, log')]
          /\ Return(r, SuccessResponse(detected_class[r], bin_type[r]))
          /\ UNCHANGED failure
       \/ \* add raises
          /\ \E e \in PersistErrors : Except(r, "persist", e)
          /\ UNCHANGED <<log, added>>
    /\ UNCHANGED <<model_defined, db_defined, request, raw, detected_class,
                   bin_type, classifyCalls>>
    /\ UNCHANGED simvars

Next ==
    \E r \in Requests :
        \/ Preflight(r)
        \/ MissingFile(r)
        \/ ReadFile(r)
        \/ Classify(r)
        \/ Persist(r)

Spec == Init /\ [][Next]_vars

----------------------------------------------------------------------------
\* One request, with a wide range of classifier texts: every category and
\* the unknown label in every mix of case and padding, and every string of
\* at most MaxLen characters over a small alphabet.

Alphabet == {"p", "S", " ", "-"}

ShortStrings == UNION {[1..n -> Alphabet] : n \in 0..MaxLen}

Pads == {<<>>, <<" ">>, <<"\n">>, <<"\t">>, <<" ", "\n">>}

Capitalize(s) ==
    [i \in 1..Len(s) |-> IF i = 1 THEN UpperChar(s[i]) ELSE s[i]]

Variants(c) ==
    {pre \o body \o post :
        pre \in Pads, body \in {c, Upper(c), Capitalize(c)}, post \in Pads}

WideLabels ==
    ShortStrings \cup {raw_inner_space} \cup
    UNION {Variants(c) : c \in PromptCategories \cup {unknown_item}}

ClassifyWide(r) == ClassifyFrom(r, WideLabels)

SingleNext ==
    \/ Preflight(1)
    \/ MissingFile(1)
    \/ ReadFile(1)
    \/ ClassifyWide(1)
    \/ Persist(1)

SingleSpec == Init /\ [][SingleNext]_vars

----------------------------------------------------------------------------
\* Vocabulary of the properties.

\* The nine recyclable categories.
NineRecyclable ==
    {cardboard, paper, metal, plastic, brown_glass, white_glass,
     green_glass, clothes, shoes}

\* The bin the routing table gives a class.
TableBin(class) == IF class \in NineRecyclable THEN Recycle ELSE General

\* The classifier has returned text for request r and the handler has
\* routed it.
Routed(r) == pc[r] = "persist" \/ persistCalls[r] > 0

\* The documents of the log that request r added.
RecordsOf(r) == {i \in 1..Len(log) : InList(log[i].id, added[r])}

\* C1: every record of the log has bin Recycle exactly when its class is one
\* of the nine recyclable categories, and General otherwise.
C1_BinMatchesClass ==
    \A i \in 1..Len(log) :
        /\ log[i].data.bin \in {Recycle, General}
        /\ log[i].data.bin = Recycle <=> log[i].data.class \in NineRecyclable

\* Two requests interleaved, one record of each bin in the log.
C1_Witness ==
    /\ Len(log) = 2
    /\ log[1].data.bin = General
    /\ log[2].data.bin = Recycle
    /\ log[2].data.class = paper

\* C2: a request calls the classifier at most once and adds at most one
\* record, whatever its outcome; every record of the log was added by exactly
\* one request.
C2_AtMostOneCallOneRecord ==
    /\ \A r \in Requests :
        /\ classifyCalls[r] <= 1
        /\ Len(added[r]) <= 1
        /\ Cardinality(RecordsOf(r)) <= 1
    /\ \A i \in 1..Len(log) : \E r \in Requests : i \in RecordsOf(r)
    /\ \A r, q \in Requests : r # q => RecordsOf(r) \cap RecordsOf(q) = {}

\* One request answered 200 with one call and one record, another answered
\* 500 after its one call, with no record.
C2_Witness ==
    \E r, q \in Requests :
        /\ response[r].status = 200
        /\ classifyCalls[r] = 1
        /\ Cardinality(RecordsOf(r)) = 1
        /\ response[q].status = 500
        /\ classifyCalls[q] = 1
        /\ RecordsOf(q) = {}

\* C3: a request whose classifier call or add raised ends with a 500
\* response carrying the error text.  After a classifier failure the add was
\* never called and no record added.  After an add failure the one classifier
\* call stands, neither call was repeated, the request has no record in the
\* log and no success response.
C3_FailureIsReported ==
    \A r \in Requests :
        /\ failure[r].at \in {"classify", "persist"} =>
            /\ pc[r] = "done"
            /\ response[r].status = 500
            /\ response[r].body = {<<"error", failure[r].msg>>}
        /\ failure[r].at = "classify" =>
            /\ failure[r].msg \in ClassifierErrors
            /\ classifyCalls[r] = 1
            /\ persistCalls[r] = 0
            /\ RecordsOf(r) = {}
        /\ failure[r].at = "persist" =>
            /\ failure[r].msg \in PersistErrors
            /\ classifyCalls[r] = 1
            /\ persistCalls[r] = 1
            /\ RecordsOf(r) = {}
            /\ added[r] = <<>>

\* One request failed at the classifier and another at the add.
C3_Witness ==
    \E r, q \in Requests :
        /\ failure[r].at = "classify"
        /\ failure[q].at = "persist"
        /\ response[q].status = 500

\* Request r has been received, is no preflight and has no field 'file'.
NoFileSubmission(r) ==
    /\ pc[r] # "idle"
    /\ request[r].method # "OPTIONS"
    /\ request[r].file = "none"

\* C4: a request that is no preflight and has no field 'file' is answered 400
\* with body {"error": "No file uploaded"} and the allow-origin header;
\* neither the classifier nor the log is called and the log stays as it was.
C4_MissingFileIs400 ==
    /\ [](\A r \in Requests : NoFileSubmission(r) =>
            /\ pc[r] = "done"
            /\ response[r] =
                 [body |-> {<<"error", <<"No file uploaded">>>>},
                  status |-> 400,
                  headers |-> {<<"Access-Control-Allow-Origin", "*">>}]
            /\ classifyCalls[r] = 0
            /\ persistCalls[r] = 0
            /\ added[r] = <<>>)
    /\ [][\A r \in Requests :
            (pc[r] = "idle" /\ NoFileSubmission(r)') => log' = log]_vars

\* A POST without file was answered 400 while the log already held a record.
C4_Witness ==
    \E r \in Requests :
        /\ request[r] = [method |-> "POST", file |-> "none"]
        /\ response[r].status = 400
        /\ Len(log) = 1

\* C5: the routing is a total function of the class alone: each of the nine
\* recyclable categories is routed to Recycle and every other string, among
\* them battery, biological, trash, the empty string and strings outside the
\* twelve categories, to General.
C5_RoutingTable ==
    \A r \in Requests :
        Routed(r) =>
            /\ bin_type[r] = TableBin(detected_class[r])
            /\ detected_class[r] \in
                 {battery, biological, trash, <<>>, unknown_item}
                    => bin_type[r] = General
            /\ detected_class[r] \in NineRecyclable => bin_type[r] = Recycle

\* The empty string was routed to General.
C5_Witness ==
    \E r \in Requests :
        /\ Routed(r)
        /\ detected_class[r] = <<>>
        /\ bin_type[r] = General

OPEN_RECYCLE == <<"O", "P", "E", "N", "_", "R", "E", "C", "Y", "C", "L", "E">>
OPEN_GENERAL == <<"O", "P", "E", "N", "_", "G", "E", "N", "E", "R", "A", "L">>

\* Character b is character a, or the lowercase of a.
LowercaseOf(a, b) ==
    \/ a = b
    \/ \E i \in 1..Len(UpperLetters) : a = UpperLetters[i] /\ b = LowerLetters[i]

\* text has no uppercase letter and no whitespace at either end.
IsNormalized(text) ==
    /\ \A i \in 1..Len(text) :
           \A k \in 1..Len(UpperLetters) : text[i] # UpperLetters[k]
    /\ text # <<>> => text[1] \notin Whitespace /\ text[Len(text)] \notin Whitespace

\* text is class up to the case of its letters, inside whitespace only.
PaddedCaseVariant(text, class) ==
    \E i \in 1..(Len(text) + 1) :
        LET j == i + Len(class) - 1 IN
        /\ j <= Len(text)
        /\ \A k \in 1..Len(class) : LowercaseOf(text[i + k - 1], class[k])
        /\ \A k \in 1..Len(text) : (k < i \/ k > j) => text[k] \in Whitespace

\* C6: a 200 response has the allow-origin header and the body {status:
\* success, class, bin, command} with class the normalised classifier text,
\* bin Recycle or General and command OPEN_RECYCLE or OPEN_GENERAL to match;
\* the one record the request added holds the same class and bin.
C6_SuccessResponse ==
    \A r \in Requests :
        response[r].status = 200 =>
            /\ response[r].headers = {<<"Access-Control-Allow-Origin", "*">>}
            /\ IsNormalized(detected_class[r])
            /\ PaddedCaseVariant(raw[r], detected_class[r])
            /\ \E b \in {Recycle, General} :
                /\ response[r].body =
                     {<<"status", <<"success">>>>,
                      <<"class", detected_class[r]>>,
                      <<"bin", b>>,
                      <<"command",
                        IF b = Recycle THEN OPEN_RECYCLE ELSE OPEN_GENERAL>>}
                /\ Cardinality(RecordsOf(r)) = 1
                /\ \A i \in RecordsOf(r) :
                       log[i].data.class = detected_class[r]
                       /\ log[i].data.bin = b
            /\ raw[r] = plastic =>
                   <<"command", OPEN_RECYCLE>> \in response[r].body
            /\ raw[r] = battery =>
                   <<"command", OPEN_GENERAL>> \in response[r].body

\* "plastic" answered Recycle / OPEN_RECYCLE and "battery" General /
\* OPEN_GENERAL, each with its record.
C6_Witness ==
    \E r, q \in Requests :
        /\ raw[r] = plastic
        /\ response[r].status = 200
        /\ <<"bin", Recycle>> \in response[r].body
        /\ raw[q] = battery
        /\ response[q].status = 200
        /\ <<"command", OPEN_GENERAL>> \in response[q].body
        /\ Len(log) = 2

\* C7: the class the handler works with is the classifier text trimmed and
\* lowercased; the bin, the record and the response are computed from it.  A
\* text that is a recyclable category up to case and surrounding whitespace
\* is routed to Recycle and stored under the category's name.
C7_NormalizedBeforeUse ==
    \A r \in Requests :
        Routed(r) =>
            /\ IsNormalized(detected_class[r])
            /\ PaddedCaseVariant(raw[r], detected_class[r])
            /\ bin_type[r] = TableBin(detected_class[r])
            /\ \A c \in NineRecyclable :
                   PaddedCaseVariant(raw[r], c) =>
                       detected_class[r] = c /\ bin_type[r] = Recycle
            /\ \A i \in RecordsOf(r) :
                   /\ log[i].data.class = detected_class[r]
                   /\ log[i].data.bin = TableBin(detected_class[r])
            /\ response[r].status = 200 =>
                   /\ <<"class", detected_class[r]>> \in response[r].body
                   /\ <<"bin", TableBin(detected_class[r])>> \in response[r].body

\* " Plastic \n" was stored as plastic in the Recycle bin.
C7_Witness ==
    \E r \in Requests :
        /\ raw[r] = raw_plastic_padded
        /\ response[r].status = 200
        /\ \E i \in RecordsOf(r) :
               log[i].data.class = plastic /\ log[i].data.bin = Recycle

\* C8: a classifier label outside the twelve categories is not rejected: it
\* is routed to General, no exception arises from it, and unless the add
\* fails the request ends 200 with bin General, command OPEN_GENERAL and one
\* record holding the label and General.
C8_UnknownLabelIsGeneral ==
    \A r \in Requests :
        (Routed(r) /\ detected_class[r] \notin PromptCategories) =>
            /\ bin_type[r] = General
            /\ failure[r].at \in {"none", "persist"}
            /\ (pc[r] = "persist" /\ failure[r].at = "none")
               \/ (pc[r] = "done" /\ failure[r].at = "persist"
                                  /\ response[r].status = 500)
               \/ /\ pc[r] = "done"
                  /\ failure[r].at = "none"
                  /\ response[r].status = 200
                  /\ response[r].body =
                       {<<"status", <<"success">>>>,
                        <<"class", detected_class[r]>>,
                        <<"bin", General>>,
                        <<"command", OPEN_GENERAL>>}
                  /\ Cardinality(RecordsOf(r)) = 1
                  /\ \A i \in RecordsOf(r) :
                         /\ log[i].data.class = detected_class[r]
                         /\ log[i].data.bin = General

\* "unknown-item" was answered 200 and logged.
C8_Witness ==
    \E r \in Requests :
        /\ detected_class[r] = unknown_item
        /\ response[r].status = 200
        /\ Cardinality(RecordsOf(r)) = 1

\* The requests answered 200.
Succeeded == {r \in Requests : response[r].status = 200}

\* C9: the log only grows, by appending: no record is changed or removed.
\* It holds exactly one record for each request answered 200, identical
\* images and failed earlier attempts notwithstanding, and none for any
\* other request.
C9_AppendOnlyNoDedup ==
    /\ [](/\ Len(log) = Cardinality(Succeeded)
          /\ \A r \in Requests :
                 Cardinality(RecordsOf(r)) = IF r \in Succeeded THEN 1 ELSE 0
          /\ \A i, j \in 1..Len(log) : i # j => log[i].id # log[j].id)
    /\ [][/\ Len(log') >= Len(log)
          /\ SubSeq(log', 1, Len(log)) = log
          /\ \A r \in Requests :
                 (r \notin Succeeded /\ r \in Succeeded') =>
                     Len(log') = Len(log) + 1]_vars

\* The same image, classified alike, submitted twice with success: two
\* records.
C9_Witness ==
    \E r, q \in Requests :
        /\ r # q
        /\ request[r] = request[q]
        /\ raw[r] = raw[q]
        /\ {r, q} \subseteq Succeeded
        /\ Len(log) = 2
        /\ log[1].data.class = log[2].data.class
        /\ log[1].id # log[2].id

\* C10: an OPTIONS request, with or without a file, is answered with an empty
\* body, status 204 and the four CORS headers; the classifier and the log are
\* not called and the log stays as it was.
C10_PreflightIs204 ==
    /\ [](\A r \in Requests :
            (pc[r] # "idle" /\ request[r].method = "OPTIONS") =>
                /\ pc[r] = "done"
                /\ response[r] =
                     [body |-> {},
                      status |-> 204,
                      headers |->
                        {<<"Access-Control-Allow-Origin", "*">>,
                         <<"Access-Control-Allow-Methods", "POST">>,
                         <<"Access-Control-Allow-Headers", "Content-Type">>,
                         <<"Access-Control-Max-Age", "3600">>}]
                /\ classifyCalls[r] = 0
                /\ persistCalls[r] = 0
                /\ added[r] = <<>>
                /\ failure[r].at = "none")
    /\ [][\A r \in Requests :
            (pc[r] = "idle" /\ pc'[r] # "idle"
                            /\ request'[r].method = "OPTIONS") =>
                log' = log]_vars

\* An OPTIONS request carrying a file was answered 204 while the log held a
\* record.
C10_Witness ==
    \E r \in Requests :
        /\ request[r] = [method |-> "OPTIONS", file |-> "img1"]
        /\ response[r].status = 204
        /\ Len(log) = 1

----------------------------------------------------------------------------
\* The handler has finished with request r: it returned or raised.
Finished(r) == pc[r] \in {"done", "raised"}

\* C11: every finished request has one response, with status 204, 400, 200
\* or 500, and every failure in a submission that carries a file is answered
\* 500 with body {"error": message} and the allow-origin header.
C11_EveryFailureAnswered ==
    \A r \in Requests :
        Finished(r) =>
            /\ response[r].status \in {204, 400, 200, 500}
            /\ failure[r].at # "none" =>
                   response[r] =
                     [body |-> {<<"error", failure[r].msg>>},
                      status |-> 500,
                      headers |-> {<<"Access-Control-Allow-Origin", "*">>}]

\* The columns the dashboard selects from the log (src/frontend/app.py).
DisplayColumns == {"timestamp", "class", "bin", "device_id"}

\* C12 as stated: every record has exactly the fields timestamp, class, bin
\* and deviceId.
C12_FieldsWithDeviceIdCamel ==
    \A i \in 1..Len(log) :
        DOMAIN log[i].data = {"timestamp", "class", "bin", "deviceId"}

\* C12, amended: every record has exactly the fields timestamp, class, bin
\* and device_id, the timestamp assigned by the server in commit order and
\* device_id the fixed identifier; these are the columns the dashboard reads.
C12_RecordFields ==
    \A i \in 1..Len(log) :
        /\ DOMAIN log[i].data = {"timestamp", "class", "bin", "device_id"}
        /\ DisplayColumns \subseteq DOMAIN log[i].data
        /\ log[i].data.device_id = <<"feather-s3-simulation">>
        /\ log[i].data.timestamp = i

\* Two records are in the log.
C12_Witness ==
    /\ Len(log) = 2
    /\ log[1].data.timestamp < log[2].data.timestamp
    /\ "device_id" \in DOMAIN log[2].data

\* C14: within a request the add is called only after the classifier has
\* returned and the bin has been derived from its text, the 200 response is
\* produced only with the add having returned, and no step of the handler
\* both calls the classifier and the add.
C14_StepsInOrder ==
    /\ [](\A r \in Requests :
            /\ persistCalls[r] > 0 =>
                /\ classifyCalls[r] = 1
                /\ failure[r].at \in {"none", "persist"}
                /\ IsNormalized(detected_class[r])
                /\ bin_type[r] = TableBin(detected_class[r])
            /\ response[r].status = 200 =>
                /\ persistCalls[r] = 1
                /\ failure[r].at = "none"
                /\ Cardinality(RecordsOf(r)) = 1)
    /\ [][\A r \in Requests :
            /\ persistCalls'[r] # persistCalls[r] =>
                /\ pc[r] = "persist"
                /\ classifyCalls[r] = 1
                /\ classifyCalls'[r] = classifyCalls[r]
                /\ bin_type[r] \in {Recycle, General}
                /\ bin_type'[r] = bin_type[r]
            /\ classifyCalls'[r] # classifyCalls[r] =>
                /\ persistCalls'[r] = persistCalls[r]
                /\ response'[r].status # 200
                /\ log' = log
            /\ (response[r].status # 200 /\ response'[r].status = 200) =>
                /\ persistCalls'[r] = persistCalls[r] + 1
                /\ Len(log') = Len(log) + 1]_vars

\* A request went through classify, route, persist and respond.
C14_Witness ==
    \E r \in Requests :
        /\ classifyCalls[r] = 1
        /\ bin_type[r] = Recycle
        /\ persistCalls[r] = 1
        /\ response[r].status = 200

\* C15: requests in flight together share nothing but the log: a step of one
\* request leaves the locals and the response of every other as they were,
\* each response and record comes from the request's own classifier text, and
\* once all requests have finished the log holds exactly one record for each
\* answered 200.
C15_RequestsIndependent ==
    /\ [](/\ \A r \in Requests :
               /\ \A i \in RecordsOf(r) :
                      /\ IsNormalized(log[i].data.class)
                      /\ PaddedCaseVariant(raw[r], log[i].data.class)
                      /\ log[i].data.bin = TableBin(log[i].data.class)
               /\ response[r].status = 200 =>
                      \E c \in {detected_class[r]} :
                          /\ IsNormalized(c)
                          /\ PaddedCaseVariant(raw[r], c)
                          /\ <<"class", c>> \in response[r].body
                          /\ <<"bin", TableBin(c)>> \in response[r].body
          /\ (\A r \in Requests : Finished(r)) =>
               /\ Len(log) = Cardinality(Succeeded)
               /\ \A r \in Succeeded : Cardinality(RecordsOf(r)) = 1)
    /\ [][/\ model_defined' = model_defined
          /\ db_defined' = db_defined
          /\ \A r \in Requests :
                 pc'[r] = pc[r] =>
                     /\ request'[r] = request[r]
                     /\ raw'[r] = raw[r]
                     /\ detected_class'[r] = detected_class[r]
                     /\ bin_type'[r] = bin_type[r]
                     /\ response'[r] = response[r]
                     /\ added'[r] = added[r]]_vars

\* Two requests overlapped, got different classes, and the later arrival was
\* logged first.
C15_Witness ==
    /\ NumRequests >= 2
    /\ response[1].status = 200
    /\ response[2].status = 200
    /\ detected_class[1] # detected_class[2]
    /\ RecordsOf(2) = {1}
    /\ RecordsOf(1) = {2}

\* C20: in a worker whose classifier handle was not built, a preflight is
\* answered 204, a submission without file 400, every submission with a file
\* 500, no request 200, and the log stays empty.
C20_DegradedWorkerAnswers ==
    ~model_defined =>
        /\ log = <<>>
        /\ \A r \in Requests :
               Finished(r) =>
                   /\ response[r].status # 200
                   /\ added[r] = <<>>
                   /\ request[r].method = "OPTIONS" => response[r].status = 204
                   /\ (request[r].method # "OPTIONS" /\ request[r].file = "none")
                          => response[r].status = 400
                   /\ (request[r].method # "OPTIONS" /\ request[r].file # "none")
                          => response[r].status = 500

----------------------------------------------------------------------------
\* The device simulator (src/simulation/simulation.py, start_simulation).
\*
\* Names are sequences of code points, so that list.sort() and the `in` test
\* on strings are computed.  One run is modelled, over a dataset directory
\* drawn at the start; what the cloud function answers is open.

\* time.sleep(2)  (lines 56 and 60)
SleepSeconds == 2

\* "B", "a", "ab"
EntryNames == {<<66>>, <<97>>, <<97, 98>>}

\* Files a category folder may hold: one that opens and one that does not.
FileNames == {"good", "bad"}
Readable(f) == f = "good"

\* An entry of the dataset directory: a plain file, a folder whose listing
\* raises (its files are out of reach), or a folder with its files.
Entries ==
    {[isdir |-> FALSE, listable |-> TRUE, files |-> {}]} \cup
    {[isdir |-> TRUE, listable |-> FALSE, files |-> {}]} \cup
    [isdir : {TRUE}, listable : {TRUE}, files : SUBSET FileNames]

\* All orders of the members of set S.
Orders(S) ==
    {o \in [1..Cardinality(S) -> S] :
        \A i, j \in 1..Cardinality(S) : i # j => o[i] # o[j]}

\* Python's < on strings.
RECURSIVE LexLess(_, _)
LexLess(a, b) ==
    IF a = <<>> THEN b # <<>>
    ELSE IF b = <<>> THEN FALSE
    ELSE IF Head(a) # Head(b) THEN Head(a) < Head(b)
    ELSE LexLess(Tail(a), Tail(b))

\* Python's `a in b` on strings.
IsSubstring(a, b) ==
    \E k \in 0..(Len(b) - Len(a)) : SubSeq(b, k + 1, k + Len(a)) = a

\* Faulty variant: the list is left in the order of os.listdir.
ListCategoriesUnsorted(listing, dataset) ==
    SelectSeq(listing, LAMBDA d : dataset[d].isdir)

\* Lines 19-21: the folders of the dataset, sorted.
ListCategories(listing, dataset) ==
    SortSeq(SelectSeq(listing, LAMBDA d : dataset[d].isdir), LexLess)

\* What requests.post gives: it raises, or returns a response whose body is
\* the handler's success JSON, some other JSON, or no JSON.
PostOutcomes ==
    {[raised |-> TRUE, status |-> 0, body |-> "none", class |-> <<>>]} \cup
    [raised : {FALSE}, status : {200}, body : {"success"},
     class : {<<97, 98>>, <<66>>}] \cup
    [raised : {FALSE}, status : {200, 400, 500},
     body : {"error_json", "not_json"}, class : {<<>>}]

\* Lines 41-54 and 58: how the cycle of `category` ends on outcome o.
CycleEnd(category, o) ==
    IF o.raised THEN "post_error"
    ELSE IF o.status # 200 THEN "http_error"
    ELSE IF o.body = "not_json" THEN "parse_error"
    ELSE IF o.body = "error_json" THEN "key_error"
    ELSE IF IsSubstring(category, o.class) THEN "correct"
    ELSE "incorrect"

\* The ends of a cycle that pass through the except clause (lines 58-60).
ExceptionEnds ==
    {"list_error", "open_error", "post_error", "parse_error", "key_error"}

\* Faulty variant: the except clause does not sleep.
SleepsAfterNoneOnError(end) ==
    IF end \in ExceptionEnds \cup {"skip"} THEN <<>> ELSE <<SleepSeconds>>

\* The sleeps of a cycle, by how it ends: line 56 on the normal path, line 60
\* in the except clause, none after `continue` (line 30).
SleepsAfter(end) ==
    IF end = "skip" THEN <<>> ELSE <<SleepSeconds>>

\* Faulty variant: an error ends the run.
NextCategoryAbort(i, end, n) ==
    IF end \in ExceptionEnds \cup {"http_error"} THEN n + 1 ELSE i + 1

\* Faulty variant: a wrong prediction ends the run.
NextCategoryStopIfWrong(i, end, n) ==
    IF end = "incorrect" THEN n + 1 ELSE i + 1

\* Faulty variant: the run starts over after the last category.
NextCategoryAgain(i, end, n) ==
    IF i = n /\ end # "correct" THEN 1 ELSE i + 1

\* The for loop (line 23): the position after the cycle at position i of n.
NextCategory(i, end, n) == i + 1

Event(ev, category) == [ev |-> ev, cat |-> category, at |-> sim_clock]

\* The cycle of the current category ends with `end`, having done `events`:
\* it sleeps and the loop moves on.
EndCycle(events, end) ==
    LET sleeps == SleepsAfter(end)
        c == categories[sim_i]
        j == NextCategory(sim_i, end, Len(categories))
    IN  /\ sim_trace' = sim_trace \o events \o <<Event(end, c)>> \o
                          [k \in 1..Len(sleeps) |-> Event("sleep", c)]
        /\ sim_clock' = sim_clock + (IF sleeps = <<>> THEN 0 ELSE sleeps[1])
        /\ sim_i' = j
        /\ sim_pc' = IF j > Len(categories) THEN "done" ELSE "capture"
        /\ image_file' = "none"

\* Lines 17-21.
SimStart ==
    /\ sim_pc = "start"
    /\ categories' = ListCategories(sim_listing, sim_dataset)
    /\ sim_i' = 1
    /\ sim_pc' = IF categories' = <<>> THEN "done" ELSE "capture"
    /\ UNCHANGED <<sim_dataset, sim_listing, image_file, sim_clock, sim_trace>>
    /\ UNCHANGED hvars

\* Lines 24-41: the folder is listed and one file chosen and opened, up to
\* the call of requests.post.
SimCapture ==
    /\ sim_pc = "capture"
    /\ LET c == categories[sim_i]
           d == sim_dataset[c]
           visit == <<Event("visit", c)>>
       IN  \/ \* os.listdir(folder) raises (line 26)
              /\ ~d.listable
              /\ EndCycle(visit, "list_error")
           \/ \* no file in the folder (lines 28-30)
              /\ d.listable
              /\ d.files = {}
              /\ EndCycle(visit, "skip")
           \/ \* random.choice, then open (lines 32-38)
              /\ d.listable
              /\ \E f \in d.files :
                    \/ /\ ~Readable(f)
                       /\ EndCycle(visit, "open_error")
                    \/ /\ Readable(f)
                       /\ image_file' = f
                       /\ sim_trace' = sim_trace \o visit \o <<Event("upload", c)>>
                       /\ sim_pc' = "upload"
                       /\ UNCHANGED <<sim_i, sim_clock>>
    /\ UNCHANGED <<sim_dataset, sim_listing, categories>>
    /\ UNCHANGED hvars

\* Lines 41-60: requests.post returns or raises, the result is printed, the
\* simulator sleeps.
SimUpload ==
    /\ sim_pc = "upload"
    /\ \E o \in PostOutcomes : EndCycle(<<>>, CycleEnd(categories[sim_i], o))
    /\ UNCHANGED <<sim_dataset, sim_listing, categories>>
    /\ UNCHANGED hvars

SimNext == SimStart \/ SimCapture \/ SimUpload

\* A dataset directory, listed in some order, and the handler idle.
SimInit ==
    /\ HandlerInit(TRUE, TRUE)
    /\ sim_dataset \in [EntryNames -> Entries]
    /\ sim_listing \in Orders(EntryNames)
    /\ sim_pc = "start"
    /\ categories = <<>>
    /\ sim_i = 0
    /\ image_file = "none"
    /\ sim_clock = 0
    /\ sim_trace = <<>>

SimSpec == SimInit /\ [][SimNext]_vars

\* Each call of the simulator returns or raises: no step waits for ever.
SimFairSpec == SimSpec /\ WF_vars(SimNext)

----------------------------------------------------------------------------
\* Vocabulary of the simulator's properties.

\* The categories of the events `ev` of the trace, in order.
CatsOf(ev) ==
    LET sel == SelectSeq(sim_trace, LAMBDA e : e.ev = ev)
    IN  [k \in 1..Len(sel) |-> sel[k].cat]

\* How often event `ev` of category c is in the trace.
Count(ev, c) ==
    Cardinality({k \in 1..Len(sim_trace) :
                    sim_trace[k].ev = ev /\ sim_trace[k].cat = c})

\* The upload events, in order.
UploadEvents == SelectSeq(sim_trace, LAMBDA e : e.ev = "upload")

\* The ways a cycle ends.
CycleEnds ==
    {"skip", "list_error", "open_error", "post_error", "parse_error",
     "key_error", "http_error", "correct", "incorrect"}

\* The end of the cycle of category c, "running" if it has none yet.
EndOf(c) ==
    IF \E k \in 1..Len(sim_trace) :
          sim_trace[k].cat = c /\ sim_trace[k].ev \in CycleEnds
    THEN sim_trace[CHOOSE k \in 1..Len(sim_trace) :
                      sim_trace[k].cat = c /\ sim_trace[k].ev \in CycleEnds].ev
    ELSE "running"

\* The folders of the dataset.
Folders == {c \in DOMAIN sim_dataset : sim_dataset[c].isdir}

\* Name a comes before name b in lexicographic order of code points.
Precedes(a, b) ==
    \E k \in 1..Len(b) :
        /\ k <= Len(a) + 1
        /\ \A m \in 1..(k - 1) : a[m] = b[m]
        /\ k = Len(a) + 1 \/ a[k] < b[k]

\* seq lists the members of S once each, in lexicographic order.
SortedListOf(seq, S) ==
    /\ {seq[k] : k \in 1..Len(seq)} = S
    /\ \A k \in 1..(Len(seq) - 1) : Precedes(seq[k], seq[k + 1])

\* Consecutive uploads start at least 2 time units apart.
UploadsSpaced ==
    \A k \in 1..(Len(UploadEvents) - 1) :
        UploadEvents[k + 1].at - UploadEvents[k].at >= 2

\* C13 as stated: a full run visits the folders in lexicographic order, each
\* once, and makes exactly one upload for each category with at least one
\* readable file, none for an empty one, consecutive uploads 2 units apart.
C13_UploadForEveryReadableCategory ==
    sim_pc = "done" =>
        /\ SortedListOf(CatsOf("visit"), Folders)
        /\ Len(CatsOf("visit")) = Cardinality(Folders)
        /\ \A c \in Folders :
               /\ (\E f \in sim_dataset[c].files : Readable(f))
                      => Count("upload", c) = 1
               /\ sim_dataset[c].files = {} => Count("upload", c) = 0
        /\ UploadsSpaced

\* C13, amended: a full run visits the folders in lexicographic order, each
\* once; it makes at most one upload per category, exactly one for each
\* category whose folder is listed and whose chosen file opens (so for every
\* listable category whose files are all readable), none for an empty
\* category or one whose listing or open fails; consecutive uploads start at
\* least 2 units apart.
C13_SortedVisitsSingleUploads ==
    /\ \A c \in Folders : Count("upload", c) <= 1
    /\ UploadsSpaced
    /\ sim_pc = "done" =>
        /\ SortedListOf(CatsOf("visit"), Folders)
        /\ Len(CatsOf("visit")) = Cardinality(Folders)
        /\ \A k \in 1..(Len(CatsOf("upload")) - 1) :
               Precedes(CatsOf("upload")[k], CatsOf("upload")[k + 1])
        /\ \A c \in Folders :
               /\ Count("upload", c) = 1
                      <=> EndOf(c) \notin {"skip", "list_error", "open_error"}
               /\ (/\ sim_dataset[c].listable
                   /\ sim_dataset[c].files # {}
                   /\ \A f \in sim_dataset[c].files : Readable(f))
                      => Count("upload", c) = 1
               /\ (\/ ~sim_dataset[c].listable
                   \/ \A f \in sim_dataset[c].files : ~Readable(f))
                      => Count("upload", c) = 0
               /\ EndOf(c) = "skip" <=>
                      (sim_dataset[c].listable /\ sim_dataset[c].files = {})

\* Three categories with readable files, listed out of order, uploaded in
\* order at times 0, 2 and 4.
C13_Witness ==
    /\ sim_pc = "done"
    /\ sim_listing = <<<<97, 98>>, <<66>>, <<97>>>>
    /\ CatsOf("upload") = <<<<66>>, <<97>>, <<97, 98>>>>
    /\ UploadEvents[1].at = 0
    /\ UploadEvents[2].at = 2
    /\ UploadEvents[3].at = 4

\* The number of categories whose cycle has begun.
Begun == Len(CatsOf("visit"))

\* C16: a category whose cycle ends in a non-200 response or an exception is
\* only reported: no category is visited or uploaded twice, the loop goes on
\* to the next category, and the finished run has visited every category.
C16_ErrorsOnlyReported ==
    /\ sim_pc # "start" =>
        /\ CatsOf("visit") = SubSeq(categories, 1, Begun)
        /\ \A c \in Folders :
               /\ Count("visit", c) <= 1
               /\ Count("upload", c) <= 1
               /\ Cardinality({k \in 1..Len(sim_trace) :
                     sim_trace[k].cat = c /\ sim_trace[k].ev \in CycleEnds}) <= 1
        /\ sim_pc = "capture" => Begun = sim_i - 1
        /\ sim_pc = "upload" => Begun = sim_i
        /\ sim_pc = "done" =>
               /\ Begun = Len(categories)
               /\ {categories[k] : k \in 1..Len(categories)} = Folders
               /\ \A c \in Folders : EndOf(c) \in CycleEnds

\* A run whose first category failed with a non-200 response and whose second
\* raised went on to upload the third.
C16_Witness ==
    /\ sim_pc = "done"
    /\ Len(categories) = 3
    /\ EndOf(categories[1]) = "http_error"
    /\ EndOf(categories[2]) \in {"post_error", "parse_error", "list_error"}
    /\ Count("upload", categories[3]) = 1

\* C17 as stated: every category whose cycle has ended, however it ended, was
\* followed by exactly one sleep.
C17_SleepAfterEveryCategory ==
    \A c \in Folders :
        EndOf(c) \in CycleEnds => Count("sleep", c) = 1

\* The categories whose cycle ended otherwise than by the skip.
EndedNotSkipped == {c \in Folders : EndOf(c) \in CycleEnds \ {"skip"}}

\* C17, amended: a category whose cycle ended in success, a non-200 response
\* or an exception was followed by exactly one sleep of 2 units, before the
\* next category; a category skipped as empty by none.
C17_SleepUnlessSkipped ==
    /\ \A c \in Folders :
           /\ EndOf(c) \in CycleEnds \ {"skip"} => Count("sleep", c) = 1
           /\ EndOf(c) \in {"skip", "running"} => Count("sleep", c) = 0
    /\ sim_clock = 2 * Cardinality(EndedNotSkipped)
    /\ \A k \in 1..Len(sim_trace) :
           sim_trace[k].ev = "sleep" =>
               /\ k > 1
               /\ sim_trace[k - 1].ev \in CycleEnds \ {"skip"}
               /\ sim_trace[k - 1].cat = sim_trace[k].cat

\* A run with a success, an exception and a skip: two sleeps.
C17_Witness ==
    /\ sim_pc = "done"
    /\ \E a, b, c \in Folders :
           /\ EndOf(a) = "correct"
           /\ EndOf(b) = "open_error"
           /\ EndOf(c) = "skip"
    /\ sim_clock = 4

\* C18: a run comes to its end whatever the uploads give, provided every
\* call returns or raises; at the end every category has been visited exactly
\* once; the loop never goes back and the ended run stays ended.
C18_RunTerminates ==
    /\ <>(sim_pc = "done")
    /\ [](sim_pc = "done" =>
            /\ SortedListOf(CatsOf("visit"), Folders)
            /\ \A c \in Folders : Count("visit", c) = 1
            /\ sim_i = Len(categories) + 1)
    /\ [][/\ sim_i' >= sim_i
          /\ sim_pc = "done" => sim_pc' = "done"
          /\ sim_pc' = "start" => sim_pc = "start"]_vars

\* A run over three categories ended after a success, a non-200 response and
\* an exception.
C18_Witness ==
    /\ sim_pc = "done"
    /\ sim_i = 4
    /\ \E a, b, c \in Folders :
           /\ EndOf(a) = "correct"
           /\ EndOf(b) = "http_error"
           /\ EndOf(c) = "post_error"

\* The categories that got as far as the upload: what the file system
\* decides, not the response.
Uploadable ==
    {c \in Folders : EndOf(c) \notin {"running", "skip", "list_error", "open_error"}}

\* C19: what the handler answers is printed and nothing else: after an
\* upload the loop is at the next category and has slept once, whatever the
\* status, the predicted class or the body were; so the categories visited,
\* their order, the number of uploads and the end of the run are fixed by the
\* dataset and the files chosen, the same for any two runs that differ in the
\* responses alone.
C19_ResponseOnlyPrinted ==
    /\ [](sim_pc = "done" =>
            /\ SortedListOf(CatsOf("visit"), Folders)
            /\ Len(CatsOf("visit")) = Cardinality(Folders)
            /\ sim_i = Cardinality(Folders) + 1
            /\ Len(UploadEvents) = Cardinality(Uploadable)
            /\ sim_clock = 2 * Cardinality(EndedNotSkipped))
    /\ [][sim_pc = "upload" =>
            /\ sim_i' = sim_i + 1
            /\ sim_pc' = IF sim_i = Len(categories) THEN "done" ELSE "capture"
            /\ sim_clock' = sim_clock + 2
            /\ categories' = categories
            /\ sim_dataset' = sim_dataset
            /\ CatsOf("visit")' = CatsOf("visit")
            /\ UploadEvents' = UploadEvents]_vars

\* A run went on to its third category after a wrong prediction and a body
\* that was no JSON.
C19_Witness ==
    /\ sim_pc = "done"
    /\ Len(categories) = 3
    /\ EndOf(categories[1]) = "incorrect"
    /\ EndOf(categories[2]) = "parse_error"
    /\ EndOf(categories[3]) = "correct"
    /\ Len(UploadEvents) = 3

====
